---- MODULE Spec2Model ----
(***************************************************************************)
(* The IP-interface resource adapter of the ONTAP provider                 *)
(* (internal/interfaces/networking_ip_interface.go): GetIPInterface,       *)
(* GetIPInterfaces, CreateIPInterface and DeleteIPInterface, each one      *)
(* synchronous round trip through the REST client to the remote system.    *)
(*                                                                         *)
(* Go values are tagged records: Nil is the nil pointer / nil slice / nil  *)
(* error, Str, Num and Obj are the decoded-JSON values of a                *)
(* map[string]interface{}, Slice is a non-nil slice.                       *)
(***************************************************************************)
EXTENDS Integers, Sequences, FiniteSets, TLC

VARIABLES
  server,   \* the remote system's interfaces, in the order the server lists them
  nextId,   \* the next identifier the server assigns
  op,       \* the last adapter call and its arguments
  reqs,     \* the REST client requests that call issued, in order
  reply,    \* what the REST client returned to that call
  ret,      \* how that call ended: a return (result, err) or a panic
  made,     \* <<name, svm>> created through the adapter and not deleted since
  gone      \* <<name, svm>> deleted through the adapter and not created since

vars == <<server, nextId, op, reqs, reply, ret, made, gone>>

----------------------------------------------------------------------------
(* Bounds and input domains *)

MaxCreates == 2

UUIDPool == <<"u1", "u2", "u3", "u4", "u5", "u6">>

Names == {"lif1", "lif2"}

SVMNames == {"vs1"}

Addresses == {"10.0.0.5"}

Netmasks == {24}

NodeNames == {"node1"}

PortNames == {"e0a"}

\* How the remote system renders one resource: every property, only the
\* projection the adapter asks for, or a record whose name is not a string.
Shapes == {"full", "fields", "badtype"}

----------------------------------------------------------------------------
(* Go values *)

Nil == [t |-> "nil"]

Str(s) == [t |-> "str", v |-> s]

Num(n) == [t |-> "num", v |-> n]

Obj(f) == [t |-> "obj", v |-> f]

Slice(s) == [t |-> "slice", v |-> s]

EmptyMap == [k \in {} |-> Nil]

\* len(s) and the elements of a slice; a nil slice has none
Elems(s) == IF s = Nil THEN << >> ELSE s.v

\* append(s, x): never nil
Append1(s, x) == Slice(Append(Elems(s), x))

\* fmt.Errorf
Errorf(msg) == [t |-> "error", msg |-> msg]

\* errorHandler.MakeAndReportError(summary, detail): the diagnostic error
MakeAndReportError(summary, cause) ==
  [t |-> "diag", summary |-> summary, cause |-> cause]

\* the two ways a call ends
Return(result, err) == [kind |-> "return", result |-> result, err |-> err]

Panic(msg) == [kind |-> "panic", result |-> Nil, err |-> Nil, msg |-> msg]

api == "network/ip/interfaces"

----------------------------------------------------------------------------
(* mapstructure: map -> IPInterfaceGetDataModelONTAP *)

\* One string field: the map is searched for the tag as a literal top-level
\* key; an absent key leaves the zero value, a non-string value is an error.
DecodeString(m, tag) ==
  IF tag \notin DOMAIN m THEN [ok |-> TRUE, v |-> ""]
  ELSE IF m[tag].t = "str" THEN [ok |-> TRUE, v |-> m[tag].v]
  ELSE [ok |-> FALSE, v |-> ""]

DecodeRecord(m) ==
  LET n == DecodeString(m, "name")
      s == DecodeString(m, "scope")
      v == DecodeString(m, "svm.name")
      u == DecodeString(m, "uuid")
  IN IF n.ok /\ s.ok /\ v.ok /\ u.ok
     THEN [err |-> Nil,
           val |-> [Name |-> n.v, Scope |-> s.v, SVMName |-> v.v, UUID |-> u.v]]
     ELSE [err |-> Errorf("decode"), val |-> Nil]

----------------------------------------------------------------------------
(* mapstructure: struct -> map *)

EncodeHomeNode(n) == Obj([name |-> Str(n.Name)])

EncodeHomePort(p) == Obj([name |-> Str(p.Name), node |-> EncodeHomeNode(p.Node)])

\* EncodeLocation with the omitempty options lost: a nil pointer is sent as null
EncodeLocation_NoOmitEmpty(l) ==
  Obj([home_node |-> IF l.HomeNode = Nil THEN Nil ELSE EncodeHomeNode(l.HomeNode),
       home_port |-> IF l.HomePort = Nil THEN Nil ELSE EncodeHomePort(l.HomePort)])

\* home_node and home_port carry omitempty: a nil pointer leaves no key
EncodeLocation(l) ==
  Obj((IF l.HomeNode = Nil THEN EmptyMap
       ELSE "home_node" :> EncodeHomeNode(l.HomeNode))
      @@
      (IF l.HomePort = Nil THEN EmptyMap
       ELSE "home_port" :> EncodeHomePort(l.HomePort)))

EncodeIP(ip) == Obj([address |-> Str(ip.Address), netmask |-> Num(ip.Netmask)])

EncodeVserver(s) == Obj([name |-> Str(s.Name)])

\* name, svm, ip and location carry no omitempty: each is always a key
EncodeBody(body) ==
  [name |-> Str(body.Name),
   svm |-> EncodeVserver(body.SVM),
   ip |-> EncodeIP(body.IP),
   location |-> EncodeLocation(body.Location)]

EncodeFilter(f) ==
  ("name" :> Str(f.Name)) @@ ("scope" :> Str(f.Scope))
  @@ ("svm.name" :> Str(f.SVMName)) @@ ("uuid" :> Str(f.UUID))

----------------------------------------------------------------------------
(* The REST client's query: every key holds the list of its values *)

NewQuery == [k \in {} |-> << >>]

\* query.Set replaces the key's values by the one value
QuerySet(q, k, v) == (k :> <<v>>) @@ q

\* query.Add appends one more value to the key
QueryAdd(q, k, v) ==
  (k :> (IF k \in DOMAIN q THEN Append(q[k], v) ELSE <<v>>)) @@ q

\* query.Fields
QueryFields(q, fields) == QuerySet(q, "fields", fields)

\* query.SetValues: every non-empty value of the flattened filter is set
RECURSIVE SetValuesOver(_, _, _)
SetValuesOver(q, m, keys) ==
  IF keys = {} THEN q
  ELSE LET k == CHOOSE x \in keys : TRUE
           q1 == IF m[k].v = "" THEN q ELSE QuerySet(q, k, m[k].v)
       IN SetValuesOver(q1, m, keys \ {k})

QuerySetValues(q, m) == SetValuesOver(q, m, DOMAIN m)

FieldList == <<"name", "svm.name", "ip", "scope">>

Request(method, path, query, body) ==
  [method |-> method, path |-> path, query |-> query, body |-> body]

\* a call of the REST client yields (statusCode, response, err)
Reply(statusCode, response, err) ==
  [statusCode |-> statusCode, response |-> response, err |-> err]

NoReply == [statusCode |-> 0, response |-> Nil, err |-> Nil, none |-> TRUE]

----------------------------------------------------------------------------
(* The remote system behind the REST client *)

ScopeOf(r) == IF r.svm = "" THEN "cluster" ELSE "svm"

KeyOf(r) == <<r.name, r.svm>>

\* the JSON resource the server returns for r
Render(r, shape) ==
  LET ip == "ip" :> Obj([address |-> Str(r.address), netmask |-> Num(r.netmask)])
      svm == IF r.svm = "" THEN EmptyMap
             ELSE "svm" :> Obj([name |-> Str(r.svm)])
      name == "name" :> (IF shape = "badtype" THEN Num(0) ELSE Str(r.name))
      scope == "scope" :> Str(ScopeOf(r))
      uuid == IF shape = "fields" THEN EmptyMap ELSE "uuid" :> Str(r.uuid)
  IN name @@ scope @@ svm @@ ip @@ uuid

Has(q, k, v) == k \in DOMAIN q => q[k] = <<v>>

Matches(r, q) ==
  /\ Has(q, "name", r.name)
  /\ Has(q, "svm.name", r.svm)
  /\ Has(q, "scope", ScopeOf(r))
  /\ Has(q, "uuid", r.uuid)

Matching(srv, q) == SelectSeq(srv, LAMBDA r : Matches(r, q))

TransportError == Errorf("transport")

\* "get exactly zero-or-one record"
GetNilOrOneRecord(srv, q, fault, shape) ==
  LET m == Matching(srv, q)
  IN IF fault THEN Reply(500, Nil, TransportError)
     ELSE IF Len(m) = 0 THEN Reply(200, Nil, Nil)
     ELSE IF Len(m) = 1 THEN Reply(200, Obj(Render(m[1], shape)), Nil)
     ELSE Reply(200, Nil, Errorf("more than one record"))

\* "get zero-or-more records"; zero matches come as an empty or a nil slice
GetZeroOrMoreRecords(srv, q, fault, shapes, emptyAs) ==
  LET m == Matching(srv, q)
  IN IF fault THEN Reply(500, Nil, TransportError)
     ELSE IF Len(m) = 0 /\ emptyAs = "nil" THEN Reply(200, Nil, Nil)
     ELSE Reply(200, Slice([i \in 1..Len(m) |-> Obj(Render(m[i], shapes[i]))]), Nil)

NewResource(bodyMap, id) ==
  [name |-> bodyMap.name.v,
   svm |-> bodyMap.svm.v.name.v,
   address |-> bodyMap.ip.v.address.v,
   netmask |-> bodyMap.ip.v.netmask.v,
   uuid |-> UUIDPool[id]]

Conflict(srv, r) == \E i \in 1..Len(srv) : KeyOf(srv[i]) = KeyOf(r)

\* "create": the reply and the server's interfaces afterwards
CallCreateMethod(srv, id, bodyMap, fault, shape, records) ==
  LET r == NewResource(bodyMap, id)
  IN IF fault
     THEN [rc |-> Reply(500, [Records |-> << >>], TransportError), srv |-> srv]
     ELSE IF Conflict(srv, r)
     THEN [rc |-> Reply(409, [Records |-> << >>], Errorf("duplicate entry")), srv |-> srv]
     ELSE [rc |-> Reply(201,
                        [Records |-> IF records = "one"
                                     THEN <<Obj(Render(r, shape))>> ELSE << >>],
                        Nil),
           srv |-> Append(srv, r)]

\* "delete", addressed by path
CallDeleteMethod(srv, path, fault) ==
  LET hit == {i \in 1..Len(srv) : api \o "/" \o srv[i].uuid = path}
  IN IF fault THEN [rc |-> Reply(500, Nil, TransportError), srv |-> srv]
     ELSE IF hit = {}
     THEN [rc |-> Reply(404, Nil, Errorf("entry doesn't exist")), srv |-> srv]
     ELSE [rc |-> Reply(200, Nil, Nil),
           srv |-> SelectSeq(srv, LAMBDA r : api \o "/" \o r.uuid # path)]

----------------------------------------------------------------------------
(* The four operations.  env holds what the call meets: the server's        *)
(* interfaces (srv), the next identifier (id), and the outcomes drawn for   *)
(* this call: a transport fault, a local encoding failure, the shape(s) of  *)
(* the returned record(s), and how an empty answer is represented.          *)
(* Each yields the requests issued, the REST client's reply, the server's   *)
(* interfaces afterwards and how the call ends.                             *)

Outcome(rq, rc, srv, r) == [reqs |-> rq, reply |-> rc, srv |-> srv, ret |-> r]

\* GetIPInterfaceQuery without the test of svmName: always the svm scope
GetIPInterfaceQuery_AlwaysSVM(name, svmName) ==
  QueryFields(QuerySet(QuerySet(QuerySet(NewQuery, "name", name),
                                "svm.name", svmName), "scope", "svm"),
              FieldList)

GetIPInterfaceQuery(name, svmName) ==
  LET q0 == QuerySet(NewQuery, "name", name)
      q1 == IF svmName = ""
            THEN QuerySet(q0, "scope", "cluster")
            ELSE QuerySet(QuerySet(q0, "svm.name", svmName), "scope", "svm")
  IN QueryFields(q1, FieldList)

\* GetIPInterface reporting a nil response as "not found": (nil, nil)
GetIPInterface_NilIsNotFound(name, svmName, env) ==
  LET query == GetIPInterfaceQuery(name, svmName)
      rc == GetNilOrOneRecord(env.srv, query, env.fault, env.shape)
      d == DecodeRecord(rc.response.v)
  IN Outcome(<<Request("GET", api, query, Nil)>>, rc, env.srv,
       IF rc.err # Nil
       THEN Return(Nil, MakeAndReportError("error reading ip_interface info", rc.err.msg))
       ELSE IF rc.response = Nil THEN Return(Nil, Nil)
       ELSE IF d.err # Nil
       THEN Return(Nil, MakeAndReportError("failed to decode response from GET", d.err.msg))
       ELSE Return(d.val, Nil))

\* GetIPInterface without the nil-response test: the nil map decodes to the
\* zero record
GetIPInterface_NoNilCheck(name, svmName, env) ==
  LET query == GetIPInterfaceQuery(name, svmName)
      rc == GetNilOrOneRecord(env.srv, query, env.fault, env.shape)
      d == DecodeRecord(IF rc.response = Nil THEN EmptyMap ELSE rc.response.v)
  IN Outcome(<<Request("GET", api, query, Nil)>>, rc, env.srv,
       IF rc.err # Nil
       THEN Return(Nil, MakeAndReportError("error reading ip_interface info", rc.err.msg))
       ELSE IF d.err # Nil
       THEN Return(Nil, MakeAndReportError("failed to decode response from GET", d.err.msg))
       ELSE Return(d.val, Nil))

GetIPInterface(name, svmName, env) ==
  LET query == GetIPInterfaceQuery(name, svmName)
      rc == GetNilOrOneRecord(env.srv, query, env.fault, env.shape)
      err == IF rc.err = Nil /\ rc.response = Nil
             THEN Errorf("no response for GET") ELSE rc.err
      d == DecodeRecord(rc.response.v)
  IN Outcome(<<Request("GET", api, query, Nil)>>, rc, env.srv,
       IF err # Nil
       THEN Return(Nil, MakeAndReportError("error reading ip_interface info", err.msg))
       ELSE IF d.err # Nil
       THEN Return(Nil, MakeAndReportError("failed to decode response from GET", d.err.msg))
       ELSE Return(d.val, Nil))

GetIPInterfacesQuery(filter) ==
  LET q0 == QueryFields(NewQuery, FieldList)
  IN IF filter # Nil THEN QuerySetValues(q0, EncodeFilter(filter)) ELSE q0

\* the decoding loop returning what it has decoded when a record fails
RECURSIVE DecodeAll_KeepsPartial(_, _, _)
DecodeAll_KeepsPartial(response, i, data) ==
  IF i > Len(response) THEN Return(data, Nil)
  ELSE LET d == DecodeRecord(response[i].v)
       IN IF d.err # Nil
          THEN Return(data, MakeAndReportError("failed to decode response from GET", d.err.msg))
          ELSE DecodeAll_KeepsPartial(response, i + 1, Append1(data, d.val))

\* the decoding loop over response[i..], data being the slice built so far
RECURSIVE DecodeAll(_, _, _)
DecodeAll(response, i, data) ==
  IF i > Len(response) THEN Return(data, Nil)
  ELSE LET d == DecodeRecord(response[i].v)
       IN IF d.err # Nil
          THEN Return(Nil, MakeAndReportError("failed to decode response from GET", d.err.msg))
          ELSE DecodeAll(response, i + 1, Append1(data, d.val))

\* GetIPInterfaces without the nil-response test: a nil slice has no records
GetIPInterfaces_NoNilCheck(filter, env) ==
  LET query == GetIPInterfacesQuery(filter)
      rc == GetZeroOrMoreRecords(env.srv, query, env.fault, env.shapes, env.emptyAs)
  IN IF filter # Nil /\ env.encodeFails
     THEN Outcome(<< >>, NoReply, env.srv,
            Return(Nil, MakeAndReportError("error encoding ip_interface filter info", "encode")))
     ELSE Outcome(<<Request("GET", api, query, Nil)>>, rc, env.srv,
            IF rc.err # Nil
            THEN Return(Nil, MakeAndReportError("error reading ip_interfaces info", rc.err.msg))
            ELSE DecodeAll(Elems(rc.response), 1, Nil))

GetIPInterfaces(filter, env) ==
  LET query == GetIPInterfacesQuery(filter)
      rc == GetZeroOrMoreRecords(env.srv, query, env.fault, env.shapes, env.emptyAs)
      err == IF rc.err = Nil /\ rc.response = Nil
             THEN Errorf("no response for GET") ELSE rc.err
  IN IF filter # Nil /\ env.encodeFails
     THEN Outcome(<< >>, NoReply, env.srv,
            Return(Nil, MakeAndReportError("error encoding ip_interface filter info", "encode")))
     ELSE Outcome(<<Request("GET", api, query, Nil)>>, rc, env.srv,
            IF err # Nil
            THEN Return(Nil, MakeAndReportError("error reading ip_interfaces info", err.msg))
            ELSE DecodeAll(Elems(rc.response), 1, Nil))

CreateIPInterfaceQuery == QueryAdd(NewQuery, "return_records", "true")

\* CreateIPInterface issuing the POST once more when it fails
CreateIPInterface_Retry(body, env) ==
  LET bodyMap == EncodeBody(body)
      rq == Request("POST", api, CreateIPInterfaceQuery, Obj(bodyMap))
      first == CallCreateMethod(env.srv, env.id, bodyMap, env.fault, env.shape, env.records)
      call == IF first.rc.err = Nil THEN first
              ELSE CallCreateMethod(first.srv, env.id, bodyMap, env.fault, env.shape, env.records)
      rc == call.rc
      d == DecodeRecord(rc.response.Records[1].v)
  IN IF env.encodeFails
     THEN Outcome(<< >>, NoReply, env.srv,
            Return(Nil, MakeAndReportError("error encoding ip_interface body", "encode")))
     ELSE Outcome(IF first.rc.err = Nil THEN <<rq>> ELSE <<rq, rq>>, rc, call.srv,
            IF rc.err # Nil
            THEN Return(Nil, MakeAndReportError("error creating ip_interface", rc.err.msg))
            ELSE IF Len(rc.response.Records) = 0
            THEN Panic("index out of range [0] with length 0")
            ELSE IF d.err # Nil
            THEN Return(Nil, MakeAndReportError("error decoding ip_interface info", d.err.msg))
            ELSE Return(d.val, Nil))

CreateIPInterface(body, env) ==
  LET bodyMap == EncodeBody(body)
      query == CreateIPInterfaceQuery
      call == CallCreateMethod(env.srv, env.id, bodyMap, env.fault, env.shape, env.records)
      rc == call.rc
      d == DecodeRecord(rc.response.Records[1].v)
  IN IF env.encodeFails
     THEN Outcome(<< >>, NoReply, env.srv,
            Return(Nil, MakeAndReportError("error encoding ip_interface body", "encode")))
     ELSE Outcome(<<Request("POST", api, query, Obj(bodyMap))>>, rc, call.srv,
            IF rc.err # Nil
            THEN Return(Nil, MakeAndReportError("error creating ip_interface", rc.err.msg))
            ELSE IF Len(rc.response.Records) = 0
            THEN Panic("index out of range [0] with length 0")
            ELSE IF d.err # Nil
            THEN Return(Nil, MakeAndReportError("error decoding ip_interface info", d.err.msg))
            ELSE Return(d.val, Nil))

DeleteIPInterface(uuid, env) ==
  LET path == api \o "/" \o uuid
      call == CallDeleteMethod(env.srv, path, env.fault)
      rc == call.rc
  IN Outcome(<<Request("DELETE", path, Nil, Nil)>>, rc, call.srv,
       IF rc.err # Nil
       THEN Return(Nil, MakeAndReportError("error deleting ip_interface", rc.err.msg))
       ELSE Return(Nil, Nil))

----------------------------------------------------------------------------
(* Inputs *)

HomeNodes == [Name : NodeNames]

HomePorts == [Name : PortNames, Node : HomeNodes]

Bodies ==
  [Name : Names,
   SVM : [Name : SVMNames \cup {""}],
   IP : [Address : Addresses, Netmask : Netmasks],
   Location : [HomeNode : {Nil} \cup HomeNodes, HomePort : {Nil} \cup HomePorts]]

Filters ==
  {Nil} \cup [Name : Names \cup {""}, Scope : {""},
              SVMName : SVMNames \cup {""}, UUID : {""}]

IssuedUUIDs == {UUIDPool[i] : i \in 1..MaxCreates}

Keys(srv) == {KeyOf(srv[i]) : i \in 1..Len(srv)}

Env(draw) ==
  [srv |-> server, id |-> nextId, fault |-> draw.fault,
   encodeFails |-> draw.encodeFails, shape |-> draw.shape,
   shapes |-> draw.shapes, emptyAs |-> draw.emptyAs, records |-> draw.records]

\* the outcomes a call can meet; what a call never reads is left at a default
Draw(fault, encodeFails, shape, shapes, emptyAs, records) ==
  [fault |-> fault, encodeFails |-> encodeFails, shape |-> shape,
   shapes |-> shapes, emptyAs |-> emptyAs, records |-> records]

Calm == Draw(FALSE, FALSE, "full", << >>, "empty", "one")

GetDraws ==
  {[Calm EXCEPT !.fault = TRUE]} \cup {[Calm EXCEPT !.shape = s] : s \in Shapes}

GetManyDraws(filter) ==
  LET n == Len(Matching(server, GetIPInterfacesQuery(filter)))
  IN {[Calm EXCEPT !.encodeFails = TRUE] : x \in {y \in {filter} : y # Nil}}
     \cup {[Calm EXCEPT !.fault = TRUE]}
     \cup {[Calm EXCEPT !.emptyAs = "nil"] : x \in {y \in {n} : y = 0}}
     \cup {[Calm EXCEPT !.shapes = ss] : ss \in [1..n -> Shapes]}

CreateDraws ==
  {[Calm EXCEPT !.encodeFails = TRUE], [Calm EXCEPT !.fault = TRUE],
   [Calm EXCEPT !.records = "none"]}
  \cup {[Calm EXCEPT !.shape = s] : s \in Shapes}

DeleteDraws == {Calm, [Calm EXCEPT !.fault = TRUE]}

----------------------------------------------------------------------------
(* The state machine: one action per operation *)

Init ==
  /\ server = << >>
  /\ nextId = 1
  /\ op = [fn |-> "none"]
  /\ reqs = << >>
  /\ reply = NoReply
  /\ ret = Return(Nil, Nil)
  /\ made = {}
  /\ gone = {}

Finish(o) ==
  /\ reqs' = o.reqs
  /\ reply' = o.reply
  /\ ret' = o.ret
  /\ server' = o.srv

CallGetIPInterface ==
  \E name \in Names, svmName \in SVMNames \cup {""}, draw \in GetDraws :
    LET o == GetIPInterface(name, svmName, Env(draw))
    IN /\ op' = [fn |-> "GetIPInterface", name |-> name, svmName |-> svmName]
       /\ Finish(o)
       /\ UNCHANGED <<nextId, made, gone>>

CallGetIPInterfaces ==
  \E filter \in Filters :
    \E draw \in GetManyDraws(filter) :
      LET o == GetIPInterfaces(filter, Env(draw))
      IN /\ op' = [fn |-> "GetIPInterfaces", filter |-> filter]
         /\ Finish(o)
         /\ UNCHANGED <<nextId, made, gone>>

CallCreateIPInterface ==
  /\ nextId <= MaxCreates
  /\ \E body \in Bodies, draw \in CreateDraws :
       LET o == CreateIPInterface(body, Env(draw))
           key == <<body.Name, body.SVM.Name>>
           created == Len(o.srv) > Len(server)
           succeeded == o.ret.kind = "return" /\ o.ret.err = Nil
       IN /\ op' = [fn |-> "CreateIPInterface", body |-> body]
          /\ Finish(o)
          /\ nextId' = IF created THEN nextId + 1 ELSE nextId
          /\ made' = IF created /\ succeeded THEN made \cup {key} ELSE made
          /\ gone' = IF created THEN gone \ {key} ELSE gone

CallDeleteIPInterface ==
  \E uuid \in IssuedUUIDs, draw \in DeleteDraws :
    LET o == DeleteIPInterface(uuid, Env(draw))
        removed == Keys(server) \ Keys(o.srv)
    IN /\ op' = [fn |-> "DeleteIPInterface", uuid |-> uuid]
       /\ Finish(o)
       /\ made' = made \ removed
       /\ gone' = IF o.ret.err = Nil THEN gone \cup removed ELSE gone
       /\ UNCHANGED nextId

Next ==
  \/ CallGetIPInterface
  \/ CallGetIPInterfaces
  \/ CallCreateIPInterface
  \/ CallDeleteIPInterface

Spec == Init /\ [][Next]_vars

----------------------------------------------------------------------------
(* What the last call met *)

Called(fn) == op.fn = fn

Issued == Len(reqs) > 0

\* the transport call was made and came back without an error
TransportOK == Issued /\ reply.err = Nil

\* the records of the reply, for the calls that decode records
ReplyRecords ==
  IF Called("GetIPInterface")
  THEN (IF reply.response = Nil THEN << >> ELSE <<reply.response>>)
  ELSE IF Called("GetIPInterfaces") THEN Elems(reply.response)
  ELSE IF Called("CreateIPInterface") THEN reply.response.Records
  ELSE << >>

\* the records the call decodes: all of them, for create only the first
DecodedRecords ==
  IF Called("CreateIPInterface") THEN SubSeq(ReplyRecords, 1, 1) ELSE ReplyRecords

Undecodable(i) == DecodeRecord(DecodedRecords[i].v).err # Nil

\* the call failed: local encoding, transport, a nil response to a read, an
\* empty records collection after create, or a record that does not decode
Failing ==
  /\ op.fn # "none"
  /\ \/ ~Issued
     \/ reply.err # Nil
     \/ /\ op.fn \in {"GetIPInterface", "GetIPInterfaces"}
        /\ reply.response = Nil
     \/ /\ Called("CreateIPInterface")
        /\ Len(reply.response.Records) = 0
     \/ \E i \in 1..Len(DecodedRecords) : Undecodable(i)

ErrorReturn == ret.kind = "return" /\ ret.err # Nil /\ ret.result = Nil

NoResponseError ==
  MakeAndReportError("error reading ip_interface info", "no response for GET")

----------------------------------------------------------------------------
(* C1: every failing call of the four operations ends by returning a       *)
(* non-nil diagnostic error with a nil result; none ends in another way,   *)
(* such as a fault on the first record of create's response.               *)
C1_FailureReturnsError == Failing => ErrorReturn

----------------------------------------------------------------------------
(* C2 as stated: after a successful delete of an interface, GetIPInterface *)
(* for its name and SVM, with no create in between and the transport       *)
(* working, returns a nil result with no error.                            *)
C2_NotFoundWithoutError ==
  (Called("GetIPInterface") /\ <<op.name, op.svmName>> \in gone /\ TransportOK)
    => (ret.kind = "return" /\ ret.result = Nil /\ ret.err = Nil)

(* C2 amended: after a successful delete of an interface, GetIPInterface   *)
(* for its name and SVM, with no create in between and the transport       *)
(* working, never returns the stale record: it returns a nil result with   *)
(* the "no response for GET" diagnostic error.                             *)
C2_NotFoundIsNoResponseError ==
  (Called("GetIPInterface") /\ <<op.name, op.svmName>> \in gone /\ TransportOK)
    => (ret.kind = "return" /\ ret.result = Nil /\ ret.err = NoResponseError)

C2_Witness ==
  /\ Called("GetIPInterface")
  /\ <<op.name, op.svmName>> \in gone
  /\ TransportOK
  /\ Len(server) > 0

----------------------------------------------------------------------------
(* C3: when the get-zero-or-one call returns a nil response with a nil     *)
(* error, GetIPInterface returns (nil, non-nil error); GetIPInterface      *)
(* never returns a nil result together with a nil error.                   *)
C3_NilResponseIsError ==
  Called("GetIPInterface") =>
    /\ (reply.err = Nil /\ reply.response = Nil) => ErrorReturn
    /\ ~(ret.result = Nil /\ ret.err = Nil)

C3_Witness ==
  Called("GetIPInterface") /\ reply.err = Nil /\ reply.response = Nil

----------------------------------------------------------------------------
(* C4: a successful CreateIPInterface(spec) followed, with no delete in    *)
(* between, by a successful GetIPInterface(spec.Name, spec.SVM.Name)       *)
(* returns a record whose Name is spec.Name and whose SVMName is           *)
(* spec.SVM.Name, the server returning the SVM as svm: {name}.             *)
C4_RoundTrip ==
  (/\ Called("GetIPInterface")
   /\ <<op.name, op.svmName>> \in made
   /\ ret.kind = "return" /\ ret.err = Nil)
    => (ret.result.Name = op.name /\ ret.result.SVMName = op.svmName)

----------------------------------------------------------------------------
ZeroMatches ==
  /\ Called("GetIPInterfaces")
  /\ TransportOK
  /\ Len(Matching(server, reqs[1].query)) = 0

(* C5 as stated: with zero matching records and a working transport,       *)
(* GetIPInterfaces returns a nil error and an empty, non-nil sequence,     *)
(* whether the REST client gives an empty or a nil collection.             *)
C5_EmptyNonNilSequence ==
  ZeroMatches => (ret.kind = "return" /\ ret.err = Nil /\ ret.result = Slice(<< >>))

(* C5 amended: with zero matching records and a working transport,         *)
(* GetIPInterfaces returns a nil error and a sequence of length 0, which   *)
(* is the nil slice, when the REST client gives an empty collection; when  *)
(* the REST client gives a nil collection it returns a nil result with     *)
(* the "no response for GET" diagnostic error.                             *)
C5_EmptyIsNilSlice ==
  ZeroMatches =>
    /\ ret.kind = "return"
    /\ reply.response = Slice(<< >>)
         => (ret.err = Nil /\ ret.result = Nil /\ Len(Elems(ret.result)) = 0)
    /\ reply.response = Nil
         => (ret.result = Nil
             /\ ret.err = MakeAndReportError("error reading ip_interfaces info",
                                             "no response for GET"))
    /\ reply.response \in {Nil, Slice(<< >>)}

C5_Witness == ZeroMatches /\ reply.response = Slice(<< >>)

----------------------------------------------------------------------------
ReturnedRecords ==
  IF ~(ret.kind = "return" /\ ret.err = Nil) THEN << >>
  ELSE IF op.fn \in {"GetIPInterface", "CreateIPInterface"} THEN <<ret.result>>
  ELSE IF Called("GetIPInterfaces") THEN Elems(ret.result)
  ELSE << >>

(* C6: every record returned with a nil error by CreateIPInterface,        *)
(* GetIPInterface or GetIPInterfaces has a non-empty UUID.                 *)
C6_UUIDNeverEmpty ==
  \A i \in 1..Len(ReturnedRecords) : ReturnedRecords[i].UUID # ""

----------------------------------------------------------------------------
(* C7: GetIPInterfaces decodes all or nothing: if any record of the        *)
(* response fails to decode the call returns (nil, non-nil error) and no   *)
(* record; otherwise it returns as many records as the response has, in    *)
(* the response's order.                                                   *)
C7_AllOrNothing ==
  (Called("GetIPInterfaces") /\ TransportOK /\ reply.response # Nil) =>
    LET recs == reply.response.v
    IN IF \E i \in 1..Len(recs) : DecodeRecord(recs[i].v).err # Nil
       THEN ErrorReturn
       ELSE /\ ret.kind = "return" /\ ret.err = Nil
            /\ Len(Elems(ret.result)) = Len(recs)
            /\ \A i \in 1..Len(recs) :
                 /\ Elems(ret.result)[i] = DecodeRecord(recs[i].v).val
                 /\ Elems(ret.result)[i].Name = recs[i].v.name.v

C7_Witness ==
  /\ Called("GetIPInterfaces") /\ TransportOK /\ reply.response # Nil
  /\ Len(reply.response.v) >= 2
  /\ DecodeRecord(reply.response.v[1].v).err = Nil
  /\ DecodeRecord(reply.response.v[2].v).err # Nil

----------------------------------------------------------------------------
NoPlacement ==
  op.body.Location.HomeNode = Nil /\ op.body.Location.HomePort = Nil

PlacementAsGiven ==
  LET loc == reqs[1].body.v.location.v
  IN /\ reqs[1].query["return_records"] = <<"true">>
     /\ "home_node" \in DOMAIN loc <=> op.body.Location.HomeNode # Nil
     /\ "home_port" \in DOMAIN loc <=> op.body.Location.HomePort # Nil
     /\ DOMAIN loc \subseteq {"home_node", "home_port"}

(* C8 as stated: CreateIPInterface always sets return_records=true, sends  *)
(* only the given sub-fields under location, and with no placement sends   *)
(* a body with no location key at all.                                     *)
C8_NoLocationKey ==
  (Called("CreateIPInterface") /\ Issued) =>
    IF NoPlacement THEN "location" \notin DOMAIN reqs[1].body.v
    ELSE PlacementAsGiven

(* C8 amended: CreateIPInterface always sets return_records=true and       *)
(* always sends a location key; only the given sub-fields (home_node,      *)
(* home_port) appear under it, so with no placement location is an empty   *)
(* object.                                                                 *)
C8_LocationAlwaysSent ==
  (Called("CreateIPInterface") /\ Issued) =>
    /\ "location" \in DOMAIN reqs[1].body.v
    /\ PlacementAsGiven
    /\ NoPlacement => reqs[1].body.v.location = Obj(EmptyMap)

C8_Witness == Called("CreateIPInterface") /\ Issued /\ NoPlacement

----------------------------------------------------------------------------
(* C9: the query of GetIPInterface holds name=<name> and exactly one       *)
(* scope value, and holds svm.name if and only if scope=svm: an empty SVM  *)
(* name gives scope=cluster and no svm.name, a non-empty SVM name v gives  *)
(* svm.name=v and scope=svm.                                               *)
C9_ScopeDerived ==
  Called("GetIPInterface") =>
    LET q == reqs[1].query
    IN /\ "name" \in DOMAIN q /\ q["name"] = <<op.name>>
       /\ "scope" \in DOMAIN q /\ Len(q["scope"]) = 1
       /\ "svm.name" \in DOMAIN q <=> q["scope"] = <<"svm">>
       /\ op.svmName = "" => (q["scope"] = <<"cluster">> /\ "svm.name" \notin DOMAIN q)
       /\ op.svmName # "" => (q["scope"] = <<"svm">> /\ q["svm.name"] = <<op.svmName>>)

C9_Witness ==
  Called("GetIPInterface") /\ op.svmName = "" /\ reqs[1].query["scope"] = <<"cluster">>

----------------------------------------------------------------------------
EncodeFailed ==
  /\ ret.kind = "return" /\ ret.err # Nil
  /\ ret.err.summary \in {"error encoding ip_interface filter info",
                          "error encoding ip_interface body"}

(* C10: a call issues at most one request, none when local encoding fails  *)
(* first, and no second one when the request fails; the reads issue GET    *)
(* and create POST on network/ip/interfaces, delete issues DELETE on       *)
(* network/ip/interfaces/{identifier}.                                     *)
C10_SingleRequest ==
  op.fn # "none" =>
    /\ Len(reqs) <= 1
    /\ ~Issued <=> EncodeFailed
    /\ \A i \in 1..Len(reqs) :
         /\ op.fn \in {"GetIPInterface", "GetIPInterfaces"}
              => (reqs[i].method = "GET" /\ reqs[i].path = api)
         /\ Called("CreateIPInterface")
              => (reqs[i].method = "POST" /\ reqs[i].path = api)
         /\ Called("DeleteIPInterface")
              => (reqs[i].method = "DELETE" /\ reqs[i].path = api \o "/" \o op.uuid)

C10_Witness ==
  Called("CreateIPInterface") /\ Issued /\ reply.err # Nil /\ ErrorReturn

====
